---- MODULE Spec2Model ----
(***************************************************************************)
(* chimerascan/deprecated/align_segments.py: the segment planner           *)
(* (determine_read_segments), the input validation (check_fastq_files),    *)
(* the three-stage pipeline (align_segments) and the driver (align).       *)
(*                                                                         *)
(* One run of align() is a sequence of steps of the single driver thread   *)
(* (pc), interleaved with the exits of the stage processes it has started. *)
(***************************************************************************)
EXTENDS Integers, Sequences, FiniteSets, TLC

\* ---------------------------------------------------------------- bounds
MaxReadLen == 5      \* probed read lengths are 1..MaxReadLen
MaxSegLen  == 3      \* --segment-length is 1..MaxSegLen
MaxTrim5   == 2      \* --trim5 is 0..MaxTrim5
MaxTrim3   == 1      \* --trim3 is 0..MaxTrim3
MaxPlanLen == 8      \* read lengths given to the planner alone (SpecPlan)
MaxPlanTrim == 4     \* trim5 given to the planner alone (SpecPlan)
PipeCap == 1         \* chunks an OS pipe buffers before a write blocks
MaxChunks == 2       \* chunks of output the segmenter has to write

\* ------------------------------------------------------ program constants
\* chimerascan.lib.config, imported on line 28.  MIN_SEGMENT_LENGTH is
\* scaled down with the read lengths; only its being >= 1 is used.
MIN_SEGMENT_LENGTH == 2
JOB_SUCCESS == 0

\* usage: <output_dir> <mate1.fq> [<mate2.fq>]
FileNames == <<"mate1.fq", "mate2.fq">>

\* ---------------------------------------------------------- Python values
PyNone      == [type |-> "NoneType", value |-> 0]
PyInt(n)    == [type |-> "int", value |-> n]
\* bool is a subclass of int: False takes part in arithmetic as 0
PyFalse     == [type |-> "bool", value |-> 0]

NoExc       == [type |-> "none", msg |-> ""]
\* class AlignError(Exception)
AlignError(value) == [type |-> "AlignError", msg |-> value]

Returned(v) == [kind |-> "return", value |-> v, exc |-> NoExc]
Raised(e)   == [kind |-> "raise", value |-> PyNone, exc |-> e]

\* ------------------------------------------------ determine_read_segments
RECURSIVE SegmentLoop_one_more(_, _, _, _, _)
SegmentLoop_one_more(x, stop, start, segments, segment_length) ==
    IF x > stop THEN <<segments, start>>
    ELSE SegmentLoop_one_more(x + 1, stop, start + segment_length,
                     Append(segments, <<start, start + segment_length>>),
                     segment_length)

\* for x in xrange(x, stop): segments.append((start, start + L)); start += L
\* returns <<segments, start>> after the loop
RECURSIVE SegmentLoop(_, _, _, _, _)
SegmentLoop(x, stop, start, segments, segment_length) ==
    IF x >= stop THEN <<segments, start>>
    ELSE SegmentLoop(x + 1, stop, start + segment_length,
                     Append(segments, <<start, start + segment_length>>),
                     segment_length)

NumSegments_round_up(read_length, segment_length, trim5, trim3) ==
    LET trimmed_rlen == read_length - trim5 - trim3
    IN  (trimmed_rlen + segment_length - 1) \div segment_length

\* lines 39-40: Python 2 integer division
NumSegments(read_length, segment_length, trim5, trim3) ==
    LET trimmed_rlen == read_length - trim5 - trim3
    IN  trimmed_rlen \div segment_length

\* lines 41-44
ReadEnd(read_length, segment_length, segment_trim, trim5, trim3) ==
    LET num_segments == NumSegments(read_length, segment_length, trim5, trim3)
    IN  IF segment_trim THEN segment_length * num_segments
        ELSE read_length - trim3


determine_read_segments_no_single(read_length, segment_length, segment_trim, trim5, trim3) ==
    LET num_segments == NumSegments(read_length, segment_length, trim5, trim3)
        read_end == ReadEnd(read_length, segment_length, segment_trim, trim5, trim3)
        start0 == trim5 + segment_length
        loop   == SegmentLoop(1, num_segments - 1, start0,
                              << <<trim5, start0>> >>, segment_length)
    IN  IF loop[2] < read_end
        THEN Append(loop[1], <<loop[2], read_end>>)
        ELSE loop[1]

determine_read_segments(read_length, segment_length, segment_trim, trim5, trim3) ==
    LET num_segments == NumSegments(read_length, segment_length, trim5, trim3)
        read_end == ReadEnd(read_length, segment_length, segment_trim, trim5, trim3)
    IN  IF num_segments = 1 THEN << <<trim5, read_end>> >>
        ELSE LET start0 == trim5 + segment_length
                 loop   == SegmentLoop(1, num_segments - 1, start0,
                                       << <<trim5, start0>> >>, segment_length)
                 segments == loop[1]
                 start    == loop[2]
             IN  IF start < read_end
                 THEN Append(segments, <<start, read_end>>)
                 ELSE segments

\* ------------------------------------------------------ check_fastq_files
\* a fastq file: whether os.path.isfile holds, and what get_read_length gives
FastqFile == [exists : {FALSE}, rlen : {0}] \cup
             [exists : {TRUE}, rlen : 1..MaxReadLen]

ReadLengths(fastq_files) == {fastq_files[i].rlen : i \in 1..Len(fastq_files)}

check_fastq_files(fastq_files, segment_length, trim5, trim3) ==
    IF \E i \in 1..Len(fastq_files) : ~fastq_files[i].exists
    THEN Raised(AlignError("fastq file is not valid"))
    ELSE IF Cardinality(ReadLengths(fastq_files)) > 1
    THEN Returned(PyFalse)
    ELSE LET rlen == fastq_files[1].rlen
             trimmed_rlen == rlen - trim5 - trim3
         IN  IF segment_length < MIN_SEGMENT_LENGTH
             THEN Raised(AlignError("segment length too small"))
             ELSE IF segment_length > trimmed_rlen
             THEN Raised(AlignError("segment length longer than trimmed read length"))
             ELSE Returned(PyInt(rlen))

\* ------------------------------------------------------------------ state
VARIABLES
    fastq_files,     \* the input files of the run
    segment_length, segment_trim, trim5, trim3, log_file,
    pc,              \* position of the driver thread
    read_length,     \* align(): value returned by check_fastq_files
    segments,        \* align(): value returned by determine_read_segments
    proc,            \* seg_p, aln_p, out_p: the Popen objects and their processes
    args,            \* the argument list each stage was started with
    started,         \* stages in the order they were started
    waited,          \* stages in the order their wait() returned
    logfh,           \* align_segments(): the log file handle
    result,          \* value returned by align_segments
    retcode,         \* value returned by align
    exception,       \* exception that left align, if any
    pipe,            \* chunks buffered in the stdout pipe of seg_p and of aln_p
    todo             \* chunks each stage still has to write to its stdout

vars == <<fastq_files, segment_length, segment_trim, trim5, trim3, log_file,
          pc, read_length, segments, proc, args, started, waited, logfh,
          result, retcode, exception, pipe, todo>>

inputs == <<fastq_files, segment_length, segment_trim, trim5, trim3, log_file>>

Stages == {"seg_p", "aln_p", "out_p"}

\* the pipes made by stdout=subprocess.PIPE, lines 71 and 95
Pipes == {"seg_p.stdout", "aln_p.stdout"}

\* what the stage processes do with their streams
stageio == <<pipe, todo>>

NotStarted == [state |-> "unstarted", returncode |-> -1,
               stdin |-> "none", stderr |-> "inherit"]

InitRun ==
    /\ pc = "check"
    /\ read_length = PyNone
    /\ segments = <<>>
    /\ proc = [p \in Stages |-> NotStarted]
    /\ args = [p \in Stages |-> <<>>]
    /\ started = <<>>
    /\ waited = <<>>
    /\ logfh = "unbound"
    /\ result = "unset"
    /\ retcode = -1
    /\ exception = NoExc
    /\ pipe = [q \in Pipes |-> 0]

Init ==
    /\ fastq_files \in [1..1 -> FastqFile] \cup [1..2 -> FastqFile]
    /\ segment_length \in 1..MaxSegLen
    /\ segment_trim \in BOOLEAN
    /\ trim5 \in 0..MaxTrim5
    /\ trim3 \in 0..MaxTrim3
    /\ log_file \in {"None", "bowtie.log"}
    /\ todo = [p \in Stages |-> 0]
    /\ InitRun

\* an exception leaves align(): nothing in align or align_segments catches it
Raise(e) ==
    /\ pc' = "raised"
    /\ exception' = e

\* align(), line 155
CheckFastqFiles ==
    /\ pc = "check"
    /\ LET r == check_fastq_files(fastq_files, segment_length, trim5, trim3)
       IN  IF r.kind = "raise"
           THEN /\ Raise(r.exc)
                /\ UNCHANGED read_length
           ELSE /\ read_length' = r.value
                /\ pc' = "plan"
                /\ UNCHANGED exception
    /\ UNCHANGED <<inputs, stageio, segments, proc, args, started, waited, logfh,
                   result, retcode>>

\* align(), line 159
DetermineReadSegments ==
    /\ pc = "plan"
    /\ segments' = determine_read_segments(read_length.value, segment_length,
                                           segment_trim, trim5, trim3)
    /\ pc' = "popen_seg"
    /\ UNCHANGED <<inputs, stageio, read_length, proc, args, started, waited, logfh,
                   result, retcode, exception>>

\* -------------------------------------------------------- align_segments
\* subprocess.Popen(args, stdin=..., stderr=...): the child now runs
Popen(p, argv, in, err) ==
    /\ proc' = [proc EXCEPT ![p] = [state |-> "running", returncode |-> -1,
                                   stdin |-> in, stderr |-> err]]
    /\ args' = [args EXCEPT ![p] = argv]
    /\ started' = Append(started, p)

\* a started stage terminates with some exit status
StageExit(p) ==
    /\ proc[p].state = "running"
    /\ \E status \in {0, 1} :
          proc' = [proc EXCEPT ![p].state = "exited", ![p].returncode = status]
    /\ UNCHANGED <<inputs, stageio, pc, read_length, segments, args, started, waited,
                   logfh, result, retcode, exception>>

\* p.wait(): blocks until the child has terminated; the value it returns
\* is dropped by the caller
Wait(p, here, next) ==
    /\ pc = here
    /\ proc[p].state = "exited"
    /\ proc' = [proc EXCEPT ![p].state = "awaited"]
    /\ waited' = Append(waited, p)
    /\ pc' = next
    /\ UNCHANGED <<inputs, stageio, read_length, segments, args, started, logfh,
                   result, retcode, exception>>

FileArgs(files) == [i \in 1..Len(files) |-> FileNames[i]]

\* lines 65-69 (the two boundary strings are not part of any property here)
SegmenterArgs(files) == <<"segment_reads.py">> \o FileArgs(files)

\* lines 76-88
AlignerArgs == <<"bowtie", "-">>

\* lines 102-106
MergerArgs_sr_paired(files) ==
    <<"join_segmented_alignments.py">>
        \o (IF Len(files) = 2 THEN <<"--sr">> ELSE <<>>)
        \o <<"-", FileNames[1], "output.bam">>


MergerArgs_all_files(files) ==
    <<"join_segmented_alignments.py">>
        \o (IF Len(files) = 1 THEN <<"--sr">> ELSE <<>>)
        \o <<"-">> \o FileArgs(files) \o <<"output.bam">>

MergerArgs(files) ==
    <<"join_segmented_alignments.py">>
        \o (IF Len(files) = 1 THEN <<"--sr">> ELSE <<>>)
        \o <<"-", FileNames[1], "output.bam">>

\* lines 65-72
PopenSeg ==
    /\ pc = "popen_seg"
    /\ \/ /\ Popen("seg_p", SegmenterArgs(fastq_files), "none", "inherit")
          /\ pc' = "open_log"
          /\ UNCHANGED exception
       \/ /\ Raise([type |-> "OSError", msg |-> "Popen seg_p"])
          /\ UNCHANGED <<proc, args, started>>
    /\ UNCHANGED <<inputs, stageio, read_length, segments, waited, logfh, result,
                   retcode>>


OpenLog_goes_on ==
    /\ pc = "open_log"
    /\ IF log_file # "None"
       THEN \/ /\ logfh' = "open"
               /\ UNCHANGED exception
            \/ /\ logfh' = "None"
               /\ exception' = [type |-> "IOError", msg |-> "open log_file"]
       ELSE /\ logfh' = "None"
            /\ UNCHANGED exception
    /\ pc' = "popen_aln"
    /\ UNCHANGED <<inputs, stageio, read_length, segments, proc, args, started,
                   waited, result, retcode>>

\* lines 90-93
OpenLog ==
    /\ pc = "open_log"
    /\ IF log_file # "None"
       THEN \/ /\ logfh' = "open"
               /\ pc' = "popen_aln"
               /\ UNCHANGED exception
            \/ /\ Raise([type |-> "IOError", msg |-> "open log_file"])
               /\ UNCHANGED logfh
       ELSE /\ logfh' = "None"
            /\ pc' = "popen_aln"
            /\ UNCHANGED exception
    /\ UNCHANGED <<inputs, stageio, read_length, segments, proc, args, started,
                   waited, result, retcode>>


PopenAln_no_stdin ==
    /\ pc = "popen_aln"
    /\ Popen("aln_p", AlignerArgs, "none",
             IF logfh = "None" THEN "inherit" ELSE "logfh")
    /\ pc' = "close_log"
    /\ UNCHANGED <<inputs, stageio, read_length, segments, waited, logfh, result,
                   retcode, exception>>

\* lines 94-96
PopenAln ==
    /\ pc = "popen_aln"
    /\ \/ /\ Popen("aln_p", AlignerArgs, "seg_p.stdout",
                   IF logfh = "None" THEN "inherit" ELSE "logfh")
          /\ pc' = "close_log"
          /\ UNCHANGED exception
       \/ /\ Raise([type |-> "OSError", msg |-> "Popen aln_p"])
          /\ UNCHANGED <<proc, args, started>>
    /\ UNCHANGED <<inputs, stageio, read_length, segments, waited, logfh, result,
                   retcode>>


CloseLog_forgotten ==
    /\ pc = "close_log"
    /\ pc' = "popen_out"
    /\ UNCHANGED <<inputs, stageio, read_length, segments, proc, args, started,
                   waited, logfh, result, retcode, exception>>

\* lines 97-98
CloseLog ==
    /\ pc = "close_log"
    /\ logfh' = IF logfh # "None" THEN "closed" ELSE logfh
    /\ pc' = "popen_out"
    /\ UNCHANGED <<inputs, stageio, read_length, segments, proc, args, started,
                   waited, result, retcode, exception>>

\* lines 102-108
PopenOut ==
    /\ pc = "popen_out"
    /\ \/ /\ Popen("out_p", MergerArgs(fastq_files), "aln_p.stdout", "inherit")
          /\ pc' = "wait_out"
          /\ UNCHANGED exception
       \/ /\ Raise([type |-> "OSError", msg |-> "Popen out_p"])
          /\ UNCHANGED <<proc, args, started>>
    /\ UNCHANGED <<inputs, stageio, read_length, segments, waited, logfh, result,
                   retcode>>

\* line 109
WaitOut_skipped ==
    /\ pc = "wait_out"
    /\ pc' = "wait_aln"
    /\ UNCHANGED <<inputs, stageio, read_length, segments, proc, args, started,
                   waited, logfh, result, retcode, exception>>

WaitOut == Wait("out_p", "wait_out", "wait_aln")

\* line 110
WaitAln == Wait("aln_p", "wait_aln", "wait_seg")

\* line 111
WaitSeg == Wait("seg_p", "wait_seg", "return_segments")

\* align_segments falls off its end: it returns None
ReturnAlignSegments ==
    /\ pc = "return_segments"
    /\ result' = "None"
    /\ pc' = "return"
    /\ UNCHANGED <<inputs, stageio, read_length, segments, proc, args, started,
                   waited, logfh, retcode, exception>>

\* align(), lines 167-168
ReturnAlign ==
    /\ pc = "return"
    /\ retcode' = JOB_SUCCESS
    /\ pc' = "done"
    /\ UNCHANGED <<inputs, stageio, read_length, segments, proc, args, started,
                   waited, logfh, result, exception>>

Next ==
    \/ CheckFastqFiles
    \/ DetermineReadSegments
    \/ PopenSeg
    \/ OpenLog
    \/ PopenAln
    \/ CloseLog
    \/ PopenOut
    \/ WaitOut
    \/ WaitAln
    \/ WaitSeg
    \/ ReturnAlignSegments
    \/ ReturnAlign
    \/ \E p \in Stages : StageExit(p)

Spec == Init /\ [][Next]_vars

\* ---------------------------------------------- the planner on its own
\* determine_read_segments applied to every parameter combination that
\* satisfies its stated preconditions
InitPlan ==
    /\ fastq_files = <<>>
    /\ log_file = "None"
    /\ \E n \in 1..MaxPlanLen :
          /\ read_length = PyInt(n)
          /\ trim5 \in 0..MaxPlanTrim
          /\ trim3 \in 0..MaxTrim3
          /\ trim5 + trim3 < n
          /\ segment_length \in 1..(n - trim5 - trim3)
    /\ segment_trim \in BOOLEAN
    /\ pc = "plan"
    /\ segments = <<>>
    /\ proc = [p \in Stages |-> NotStarted]
    /\ args = [p \in Stages |-> <<>>]
    /\ started = <<>>
    /\ waited = <<>>
    /\ logfh = "unbound"
    /\ result = "unset"
    /\ retcode = -1
    /\ exception = NoExc
    /\ pipe = [q \in Pipes |-> 0]
    /\ todo = [p \in Stages |-> 0]

NextPlan == DetermineReadSegments

SpecPlan == InitPlan /\ [][NextPlan]_vars

\* ------------------------------------------- the stages and their pipes
\* The three children run concurrently and hand their data on through the
\* two OS pipes.  Spec lets a stage exit at any moment (StageExit); here
\* a stage exits when its work is done, when it fails, or when a write
\* finds no reader left.
Alive(p) == proc[p].state = "running"

Producer(q) == IF q = "seg_p.stdout" THEN "seg_p" ELSE "aln_p"
OutPipe(p) == IF p = "seg_p" THEN "seg_p.stdout" ELSE "aln_p.stdout"

\* seg_p.stdout and aln_p.stdout are file objects of the parent from the
\* Popen call on; align_segments never closes them
ParentHolds(q) == proc[Producer(q)].state # "unstarted"

StartedAfter(p, q) ==
    \E i, j \in 1..Len(started) :
        /\ started[i] = Producer(q) /\ started[j] = p /\ i < j

\* the processes holding the read end of q: the parent, the stage that has
\* it as stdin, and every stage forked while the parent held it
\* (Popen is called without close_fds)
ReadHandles(q) ==
    (IF ParentHolds(q) THEN {"parent"} ELSE {})
    \cup {p \in Stages : Alive(p) /\ (proc[p].stdin = q \/ StartedAfter(p, q))}

\* the write end stays with the producing child alone
WriteHandles(q) == {p \in {Producer(q)} : Alive(p)}

Exit(p, status) ==
    proc' = [proc EXCEPT ![p].state = "exited", ![p].returncode = status]

\* a stage writes one chunk: SIGPIPE ends it when nobody holds the read
\* end, and the write blocks while the pipe is full
StageWrite(p) ==
    /\ Alive(p)
    /\ todo[p] > 0
    /\ LET q == OutPipe(p)
       IN  IF ReadHandles(q) = {}
           THEN /\ Exit(p, 1)
                /\ UNCHANGED <<pipe, todo>>
           ELSE /\ pipe[q] < PipeCap
                /\ pipe' = [pipe EXCEPT ![q] = @ + 1]
                /\ todo' = [todo EXCEPT ![p] = @ - 1]
                /\ UNCHANGED proc
    /\ UNCHANGED <<inputs, pc, read_length, segments, args, started, waited,
                   logfh, result, retcode, exception>>

\* a stage reads one chunk from its stdin; the aligner turns it into one
\* chunk of output, which it writes before it reads again
StageRead(p) ==
    /\ Alive(p)
    /\ todo[p] = 0
    /\ LET q == proc[p].stdin
       IN  /\ pipe[q] > 0
           /\ pipe' = [pipe EXCEPT ![q] = @ - 1]
    /\ todo' = [todo EXCEPT ![p] = IF p = "aln_p" THEN 1 ELSE 0]
    /\ UNCHANGED <<inputs, pc, read_length, segments, proc, args, started,
                   waited, logfh, result, retcode, exception>>

\* end of input: nothing buffered and no writer left
AtEOF(q) == pipe[q] = 0 /\ WriteHandles(q) = {}

\* a stage that has written all its output and has no input left exits
StageFinish(p) ==
    /\ Alive(p)
    /\ todo[p] = 0
    /\ p # "seg_p" => AtEOF(proc[p].stdin)
    /\ Exit(p, 0)
    /\ UNCHANGED <<inputs, stageio, pc, read_length, segments, args,
                   started, waited, logfh, result, retcode, exception>>

\* a stage fails and exits before it has consumed its input
StageFail(p) ==
    /\ Alive(p)
    /\ Exit(p, 1)
    /\ UNCHANGED <<inputs, stageio, pc, read_length, segments, args,
                   started, waited, logfh, result, retcode, exception>>

DriverStep ==
    \/ CheckFastqFiles
    \/ DetermineReadSegments
    \/ PopenSeg
    \/ OpenLog
    \/ PopenAln
    \/ CloseLog
    \/ PopenOut
    \/ WaitOut
    \/ WaitAln
    \/ WaitSeg
    \/ ReturnAlignSegments
    \/ ReturnAlign

\* what stage p does as long as it can
StageRun(p) ==
    \/ p \in {"seg_p", "aln_p"} /\ StageWrite(p)
    \/ p \in {"aln_p", "out_p"} /\ StageRead(p)
    \/ StageFinish(p)

StageStep == \E p \in Stages : StageRun(p)

InitPipes ==
    /\ fastq_files \in [1..1 -> FastqFile] \cup [1..2 -> FastqFile]
    /\ segment_length \in 1..MaxSegLen
    /\ segment_trim = FALSE
    /\ trim5 = 0
    /\ trim3 = 0
    /\ log_file \in {"None", "bowtie.log"}
    /\ \E n \in 0..MaxChunks :
          todo = [p \in Stages |-> IF p = "seg_p" THEN n ELSE 0]
    /\ InitRun

NextPipes ==
    \/ DriverStep
    \/ StageStep
    \/ \E p \in Stages : StageFail(p)

\* the driver is one running thread and every stage is a scheduled
\* process: each takes its next step when it stays able to; a failure is
\* never owed
SpecPipes ==
    /\ InitPipes
    /\ [][NextPipes]_vars
    /\ WF_vars(DriverStep)
    /\ \A p \in Stages : WF_vars(StageRun(p))

\* ===================================================== properties
AwaitOrder == <<"out_p", "aln_p", "seg_p">>

AllExited == \A p \in Stages : proc[p].returncode # -1
SomeStageFailed == \E p \in Stages : proc[p].returncode > 0
AllStagesZero == \A p \in Stages : proc[p].returncode = 0

\* the first stage, in await order, whose exit status is not zero
FirstFailing ==
    LET i == CHOOSE k \in 1..3 :
                 /\ proc[AwaitOrder[k]].returncode > 0
                 /\ \A j \in 1..(k - 1) : proc[AwaitOrder[j]].returncode = 0
    IN  AwaitOrder[i]

\* C1: the driver reports success if and only if all three stages exited
\* with status zero; with any non-zero status it reports a failure result.
C1_SuccessIffAllStagesZero ==
    pc = "done" => (retcode = JOB_SUCCESS <=> AllStagesZero)

\* C2: when at least one stage exits non-zero, the pipeline result names
\* the first failing stage in await order (merger, aligner, segmenter).
C2_FailingStageNamed ==
    (pc = "done" /\ SomeStageFailed) => result = FirstFailing

\* -- the validation conditions, as the specification words them
AllFilesExist == \A i \in 1..Len(fastq_files) : fastq_files[i].exists
LengthsDiffer == \E i, j \in 1..Len(fastq_files) :
                    /\ fastq_files[i].exists /\ fastq_files[j].exists
                    /\ fastq_files[i].rlen # fastq_files[j].rlen
CommonLength == fastq_files[1].rlen
SegmentTooShort == segment_length < MIN_SEGMENT_LENGTH
SegmentTooLong == /\ AllFilesExist /\ ~LengthsDiffer
                  /\ segment_length > CommonLength - trim5 - trim3
ValidationFails ==
    ~AllFilesExist \/ LengthsDiffer \/ SegmentTooShort \/ SegmentTooLong

\* C3: when input validation fails for any reason, no stage process is
\* ever started and the driver does not return success.
C3_NoStageAfterFailedValidation ==
    ValidationFails => (started = <<>> /\ pc # "done")

\* the state right after check_fastq_files has returned or raised
Checked == pc = "plan" \/ (pc = "raised" /\ segments = <<>>)

\* the reasons of the conditions the inputs violate
ViolatedReasons ==
    (IF ~AllFilesExist THEN {"fastq file is not valid"} ELSE {})
    \cup (IF AllFilesExist /\ LengthsDiffer
          THEN {"read lengths are unequal"} ELSE {})
    \cup (IF SegmentTooShort THEN {"segment length too small"} ELSE {})
    \cup (IF SegmentTooLong
          THEN {"segment length longer than trimmed read length"} ELSE {})

\* C4: check_fastq_files returns the common read length exactly when all
\* files exist, all read lengths are equal and the segment length is in
\* range; otherwise it fails with an error whose reason identifies a
\* violated condition, and never with a value usable as a read length.
C4_ValidateOutcome ==
    Checked =>
        IF ValidationFails
        THEN /\ exception.type = "AlignError"
             /\ exception.msg \in ViolatedReasons
             /\ read_length = PyNone
        ELSE /\ exception = NoExc
             /\ read_length = PyInt(CommonLength)

\* -- the planner's result
Planned == read_length # PyNone /\ pc # "plan"

ClaimNumSegments == (read_length.value - trim5 - trim3) \div segment_length
ClaimReadEnd == IF segment_trim THEN segment_length * ClaimNumSegments
                ELSE read_length.value - trim3

Contiguous(segs) ==
    \A i \in 1..(Len(segs) - 1) : segs[i][2] = segs[i + 1][1]

\* C5: for trim5 + trim3 < read_length and 1 <= segment_length <= trimmed
\* length, the boundaries are ordered, each starts where the previous one
\* ends, the first starts at trim5 and the last ends at read_end.
C5_CoversTrim5ToReadEnd ==
    Planned =>
        /\ Len(segments) >= 1
        /\ \A i \in 1..Len(segments) : segments[i][1] <= segments[i][2]
        /\ Contiguous(segments)
        /\ segments[1][1] = trim5
        /\ segments[Len(segments)][2] = ClaimReadEnd

\* C6: for inputs that pass validation the planner's list is non-empty
\* and every boundary satisfies 0 <= start < end <= read_length.
C6_BoundariesWellFormed ==
    (Planned /\ ~ValidationFails) =>
        /\ Len(segments) >= 1
        /\ \A i \in 1..Len(segments) :
              /\ 0 <= segments[i][1]
              /\ segments[i][1] < segments[i][2]
              /\ segments[i][2] <= read_length.value

\* C7: with segment_trim every boundary has length exactly segment_length
\* and only the suffix that forms no complete segment is discarded.
C7_TrimGivesWholeSegments ==
    (Planned /\ segment_trim) =>
        /\ \A i \in 1..Len(segments) :
              segments[i][2] - segments[i][1] = segment_length
        /\ Contiguous(segments)
        /\ segments[1][1] = trim5
        /\ segments[Len(segments)][2] = trim5 + segment_length * ClaimNumSegments

\* C8: on every exit path of align_segments every started stage has been
\* awaited and every opened log handle has been closed.
Left == pc \in {"return", "done"} \/ (pc = "raised" /\ segments # <<>>)

C8_ResourcesReleasedOnExit ==
    Left =>
        /\ \A p \in Stages : proc[p].state \in {"unstarted", "awaited"}
        /\ logfh # "open"

IsPrefix(s, t) == Len(s) <= Len(t) /\ \A i \in 1..Len(s) : s[i] = t[i]

\* C9: once all three stages are started, they are awaited merger first,
\* then aligner, then segmenter, and control does not return before all
\* three have been awaited.
C9_AwaitOrder ==
    Len(started) = 3 =>
        /\ IsPrefix(waited, AwaitOrder)
        /\ pc \in {"return_segments", "return", "done", "raised"}
              => waited = AwaitOrder

C9_Witness == pc = "done" /\ Len(started) = 3 /\ waited = AwaitOrder

HasArg(p, a) == \E i \in 1..Len(args[p]) : args[p][i] = a

\* C10: the merger is started with --sr if and only if exactly one read
\* file is supplied.
C10_SingleEndIndicator ==
    proc["out_p"].state # "unstarted" =>
        (HasArg("out_p", "--sr") <=> Len(fastq_files) = 1)

C10_Witness ==
    /\ proc["out_p"].state # "unstarted"
    /\ Len(fastq_files) = 1
    /\ HasArg("out_p", "--sr")

StartOrder == <<"seg_p", "aln_p", "out_p">>
Started(p) == proc[p].state # "unstarted"

\* C12: the stages are started in the order segmenter, aligner, merger,
\* each reading the previous stage's output stream, and no stage is
\* awaited before the merger has been started.
C12_StartOrderAndWiring ==
    /\ IsPrefix(started, StartOrder)
    /\ \A p \in Stages : Started(p) <=> (\E i \in 1..Len(started) : started[i] = p)
    /\ Started("seg_p") => proc["seg_p"].stdin = "none"
    /\ Started("aln_p") => proc["aln_p"].stdin = "seg_p.stdout"
    /\ Started("out_p") => proc["out_p"].stdin = "aln_p.stdout"
    /\ waited # <<>> => started = StartOrder
    /\ pc \in {"wait_out", "wait_aln", "wait_seg"} => started = StartOrder

C12_Witness ==
    /\ pc = "wait_out"
    /\ started = StartOrder
    /\ waited = <<>>
    /\ proc["out_p"].stdin = "aln_p.stdout"

Awaiting == waited # <<>> \/ pc \in {"wait_out", "wait_aln", "wait_seg"}

LogHandleState ==
    /\ log_file = "None" => logfh \in {"unbound", "None"}
    /\ log_file # "None" => logfh \in {"unbound", "open", "closed"}
    /\ \A p \in Stages :
          proc[p].stderr = "logfh" => (p = "aln_p" /\ log_file # "None")
    /\ (log_file # "None" /\ Started("aln_p")) => proc["aln_p"].stderr = "logfh"
    /\ logfh = "closed" => Started("aln_p")
    /\ (log_file # "None" /\ Awaiting) => logfh = "closed"

LogHandleStep ==
    /\ (logfh' = "open" /\ logfh # "open") => logfh = "unbound"
    /\ logfh # "unbound" => logfh' # "unbound"
    /\ logfh = "closed" => logfh' = "closed"

\* C13: a given log file is opened exactly once, handed to the aligner
\* only, and closed after the aligner is started and before any stage is
\* awaited; without a log file no handle is opened or closed.
C13_LogHandle == [](LogHandleState) /\ [][LogHandleStep]_vars

C13_Witness ==
    /\ log_file # "None"
    /\ pc = "wait_out"
    /\ logfh = "closed"
    /\ proc["aln_p"].stderr = "logfh"

ResourceError == exception.type \in {"OSError", "IOError"}

AbortedState ==
    ResourceError => (pc = "raised" /\ retcode # JOB_SUCCESS)

AbortedStep ==
    pc = "raised" =>
        /\ pc' = "raised"
        /\ started' = started
        /\ retcode' = retcode

\* C14: when opening the log file or starting a stage fails, the run
\* aborts at once: no further stage is started and the driver does not
\* return the success code.
C14_AbortOnResourceError == [](AbortedState) /\ [][AbortedStep]_vars

C14_Witness ==
    /\ pc = "raised"
    /\ exception.type = "IOError"
    /\ started = <<"seg_p">>

\* C15: determine_read_segments is only invoked with the common probed
\* read length, with read_length > trim5 + trim3 and segment_length <=
\* read_length - trim5 - trim3, so that num_segments >= 1.
C15_PlannerPreconditions ==
    pc = "plan" =>
        /\ AllFilesExist
        /\ ~LengthsDiffer
        /\ read_length = PyInt(CommonLength)
        /\ read_length.value > trim5 + trim3
        /\ segment_length <= read_length.value - trim5 - trim3
        /\ ClaimNumSegments >= 1

\* the k-th fixed window of the grid that starts at trim5
FixedWindow(k) ==
    <<trim5 + (k - 1) * segment_length, trim5 + k * segment_length>>

\* C16: with num_segments >= 2 the planner returns num_segments - 1 fixed
\* windows of length segment_length from trim5 on, then one trailing
\* boundary up to read_end exactly when the last window ends before
\* read_end.
C16_FixedWindowsThenTrailing ==
    (Planned /\ ClaimNumSegments >= 2) =>
        LET k == ClaimNumSegments - 1
            gridEnd == trim5 + k * segment_length
        IN  /\ Len(segments) = k + (IF gridEnd < ClaimReadEnd THEN 1 ELSE 0)
            /\ \A i \in 1..k : segments[i] = FixedWindow(i)
            /\ gridEnd < ClaimReadEnd => segments[k + 1] = <<gridEnd, ClaimReadEnd>>

C16_Witness ==
    /\ Planned
    /\ ClaimNumSegments >= 3
    /\ ~segment_trim
    /\ Len(segments) = ClaimNumSegments
    /\ segments[Len(segments)][2] = ClaimReadEnd

\* C17: with num_segments = 1 the planner returns the single boundary
\* (trim5, read_end): (trim5, read_length - trim3) without segment_trim,
\* (trim5, segment_length) with it; [(0,30)] and [(0,25)] for read length
\* 30 and segment length 25.
C17_SingleSegment ==
    (Planned /\ ClaimNumSegments = 1) =>
        /\ segments = << <<trim5, ClaimReadEnd>> >>
        /\ ~segment_trim => segments = << <<trim5, read_length.value - trim3>> >>
        /\ segment_trim => segments = << <<trim5, segment_length>> >>
        /\ determine_read_segments(30, 25, FALSE, 0, 0) = << <<0, 30>> >>
        /\ determine_read_segments(30, 25, TRUE, 0, 0) = << <<0, 25>> >>

C17_Witness ==
    /\ Planned
    /\ ClaimNumSegments = 1
    /\ segment_trim
    /\ read_length.value - trim3 > segment_length
    /\ segments = << <<trim5, segment_length>> >>

SegLen(i) == segments[i][2] - segments[i][1]

\* C18: without segment_trim the planner returns exactly
\* floor((read_length - trim5 - trim3) / segment_length) boundaries, all
\* but the last of length segment_length, the last of a length L with
\* segment_length <= L < 2 * segment_length; [(0,25),(25,50),(50,76)] for
\* read length 76 and segment length 25.
C18_LastAbsorbsRemainder ==
    (Planned /\ ~segment_trim) =>
        /\ Len(segments) = ClaimNumSegments
        /\ \A i \in 1..(Len(segments) - 1) : SegLen(i) = segment_length
        /\ SegLen(Len(segments)) >= segment_length
        /\ SegLen(Len(segments)) < 2 * segment_length
        /\ determine_read_segments(76, 25, FALSE, 0, 0)
              = << <<0, 25>>, <<25, 50>>, <<50, 76>> >>

C18_Witness ==
    /\ Planned
    /\ ~segment_trim
    /\ Len(segments) >= 2
    /\ SegLen(Len(segments)) > segment_length
    /\ SegLen(1) = segment_length

\* C19: the merger is invoked with the alignment stream and every raw
\* read file of the run; for paired-end input both mate files are passed.
C19_AllReadFilesToMerger ==
    Started("out_p") =>
        /\ HasArg("out_p", "-")
        /\ \A i \in 1..Len(fastq_files) : HasArg("out_p", FileNames[i])

\* C19 as amended: the merger is invoked with the alignment stream, the
\* first raw read file and the output file; a second mate file is not
\* passed.
C19_FirstReadFileToMerger ==
    Started("out_p") =>
        LET a == args["out_p"]
            n == Len(a)
        IN  /\ n >= 3
            /\ a[n - 2] = "-"
            /\ a[n - 1] = FileNames[1]
            /\ a[n] = "output.bam"
            /\ \A i \in 2..Len(fastq_files) : ~HasArg("out_p", FileNames[i])

C19_Witness ==
    /\ Started("out_p")
    /\ Len(fastq_files) = 2
    /\ HasArg("out_p", FileNames[1])
    /\ ~HasArg("out_p", FileNames[2])

\* C11, as a property of behaviours: once the three stages are started
\* the orchestrator eventually returns.
EventuallyReturns == (started = StartOrder) ~> (pc = "done")

\* C11: once the three stages are started the orchestrator eventually
\* returns, also when a downstream stage exits early while its producer
\* has more data than the pipe holds: until align has returned, the
\* driver or some stage can always take its next step.
C11_NeverBlocked ==
    (started = StartOrder /\ pc # "done") => ENABLED (DriverStep \/ StageStep)

====
